---- MODULE Spec2Model ----
(***************************************************************************)
(* The number-guessing game of src/scripts.js as a state machine.          *)
(*                                                                         *)
(* State: the script's module variables (secretNumber, attempts,           *)
(* gameOver) and the DOM nodes the script reads and writes (the guess      *)
(* field, the submit and reset buttons, the card container, the log table  *)
(* and the text displays).  One action per event listener; every handler   *)
(* runs to completion in one step (the page is single threaded).           *)
(*                                                                         *)
(* JavaScript strings are sequences of one-character strings, so that      *)
(* parseInt and the number-to-string conversion are computed and not       *)
(* assumed.  Math.random() is an input: one handler run consumes the       *)
(* successive values of one random tape, drawn from a bounded family.      *)
(* Date values are not modelled: a display that shows a date holds the     *)
(* token "<date>".                                                         *)
(***************************************************************************)
EXTENDS Integers, Sequences, FiniteSets

(***************************************************************************)
(* Program constants                                                       *)
(***************************************************************************)
MinNumber == 1
MaxNumber == 50
NUMBER_OF_MCQ_OPTIONS == 5

(***************************************************************************)
(* Bounds of the model                                                     *)
(***************************************************************************)
\* Math.random() yields one of the first RandomCount values of RandomPool.
RandomCount == 6
\* Guess events of a running game are explored while attempts is below this
\* cap,
MaxAttempts == 3
\* and guess events that arrive before window.onload while it is below this.
MaxEarlyGuesses == 1

(***************************************************************************)
(* JavaScript values that are not integers.  Every integer the model can   *)
(* compute has fewer than six digits, so these three never collide with a  *)
(* number.                                                                 *)
(***************************************************************************)
NaN == -1000000
undefined == -2000000
null == -3000000

IsNumber(v) == v \notin {NaN, undefined, null}

\* a === b for numbers, NaN and undefined
StrictEquals(a, b) == a # NaN /\ b # NaN /\ a = b
\* a < b and a > b as JavaScript compares them: false when either side is
\* NaN or undefined (undefined converts to NaN)
LessThan(a, b) == IsNumber(a) /\ IsNumber(b) /\ a < b
GreaterThan(a, b) == IsNumber(a) /\ IsNumber(b) /\ a > b
isNaN(v) == v \in {NaN, undefined}

(***************************************************************************)
(* Strings                                                                 *)
(***************************************************************************)
HexDigits == <<"0", "1", "2", "3", "4", "5", "6", "7", "8", "9",
               "a", "b", "c", "d", "e", "f">>
UpperHexDigits == <<"0", "1", "2", "3", "4", "5", "6", "7", "8", "9",
                    "A", "B", "C", "D", "E", "F">>
WhiteSpace == {" "}

IsDigit(c, radix) ==
    \E i \in 1..radix : HexDigits[i] = c \/ UpperHexDigits[i] = c
DigitValue(c) ==
    (CHOOSE i \in 1..16 : HexDigits[i] = c \/ UpperHexDigits[i] = c) - 1

\* The steps of parseInt are functions, whose arguments are values.

StripLeadingWhiteSpace[s \in Seq(STRING)] ==
    IF s # <<>> /\ Head(s) \in WhiteSpace
    THEN StripLeadingWhiteSpace[Tail(s)]
    ELSE s

\* the value of the longest prefix of s made of digits of the radix
DigitsValue[s \in Seq(STRING), radix \in {10, 16}, acc \in Nat] ==
    IF s # <<>> /\ IsDigit(Head(s), radix)
    THEN DigitsValue[Tail(s), radix, acc * radix + DigitValue(Head(s))]
    ELSE acc

\* the digits, after the sign and the prefix: NaN when there is none
ParseDigits[s \in Seq(STRING), radix \in {10, 16}, sign \in {-1, 1}] ==
    IF s # <<>> /\ IsDigit(Head(s), radix)
    THEN sign * DigitsValue[s, radix, 0]
    ELSE NaN

\* a 0x or 0X prefix makes the radix 16
ParsePrefix[s \in Seq(STRING), sign \in {-1, 1}] ==
    IF Len(s) >= 2 /\ s[1] = "0" /\ s[2] \in {"x", "X"}
    THEN ParseDigits[Tail(Tail(s)), 16, sign]
    ELSE ParseDigits[s, 10, sign]

ParseSign[s \in Seq(STRING)] ==
    IF s # <<>> /\ Head(s) = "-" THEN ParsePrefix[Tail(s), -1]
    ELSE IF s # <<>> /\ Head(s) = "+" THEN ParsePrefix[Tail(s), 1]
    ELSE ParsePrefix[s, 1]

\* parseInt(string) with no radix argument: leading white space is skipped,
\* a sign and a 0x prefix are read, then the longest run of digits; what
\* follows the digits is ignored; NaN when there is no digit.
parseInt(str) == ParseSign[StripLeadingWhiteSpace[str]]

RECURSIVE DecimalDigits(_)
DecimalDigits(n) ==
    IF n < 10 THEN <<HexDigits[n + 1]>>
    ELSE Append(DecimalDigits(n \div 10), HexDigits[(n % 10) + 1])

\* String(v): what a template literal, textContent or dataset assignment
\* makes of a value
toString(v) ==
    IF v = undefined THEN <<"u", "n", "d", "e", "f", "i", "n", "e", "d">>
    ELSE IF v = NaN THEN <<"N", "a", "N">>
    ELSE IF v = null THEN <<"n", "u", "l", "l">>
    ELSE IF v < 0 THEN <<"-">> \o DecimalDigits(-v)
    ELSE DecimalDigits(v)

(***************************************************************************)
(* The random source                                                       *)
(***************************************************************************)
\* The values Math.random() returns in the model, in hundredths.  With the
\* range 1..50 they give the numbers 17, 25, 10, 12, 7, 50, 1 and 34.
RandomPool == <<33, 49, 19, 23, 13, 99, 0, 67>>

\* A tape is what Math.random() returns, call after call, during one run of
\* a handler: the values of the pool in cyclic order from the tape's start.
\* A tape never repeats a value before it has produced all of them.
RandomTapes == [start : 0..(RandomCount - 1)]

\* A tape can also be written out: the values Math.random() returns, in
\* hundredths, call after call.
WrittenTapes == [values : Seq(0..99)]

Tapes == RandomTapes \cup WrittenTapes

\* the n-th value (n = 0, 1, ...) of the tape, in hundredths
Random(tape, n) ==
    IF "values" \in DOMAIN tape
    THEN tape.values[n + 1]
    ELSE RandomPool[((tape.start + n) % RandomCount) + 1]

\* generateRandomNumber with (max + 1) for (max - min + 1)
generateRandomNumber_maxPlusOne(min, max, r) ==
    ((r * (max + 1)) \div 100) + min

\* Math.floor(Math.random() * (max - min + 1)) + min, where Math.random()
\* returned r hundredths
generateRandomNumber(min, max, r) ==
    ((r * (max - min + 1)) \div 100) + min

(***************************************************************************)
(* generateMCQOptions                                                      *)
(***************************************************************************)
\* an array's push in place of the Set's add
SetAdd_push(set, v) == Append(set, v)

\* Set.prototype.add on a Set kept as the sequence of its members in
\* insertion order (the order Array.from reads them in)
SetAdd(set, v) ==
    IF \E k \in 1..Len(set) : set[k] = v THEN set ELSE Append(set, v)

\* The two loops are recursive functions, whose arguments are values: the
\* set so far and the count of random values taken, then the array and i.

\* the while loop: draws until the set has NUMBER_OF_MCQ_OPTIONS members;
\* n counts the values taken from the tape
FillOptions[options \in Seq(Int), tape \in Tapes, n \in Nat] ==
    IF Len(options) < NUMBER_OF_MCQ_OPTIONS
    THEN LET randomNum ==
                 generateRandomNumber(MinNumber, MaxNumber, Random(tape, n))
         IN  FillOptions[SetAdd(options, randomNum), tape, n + 1]
    ELSE [options |-> options, drawn |-> n]

\* a[i] = a[j] alone, for the swap
Swap_overwrite(a, i, j) ==
    [a EXCEPT ![i + 1] = a[j + 1]]

\* [a[i], a[j]] = [a[j], a[i]] on 0-based indices
Swap(a, i, j) ==
    [a EXCEPT ![i + 1] = a[j + 1], ![j + 1] = a[i + 1]]

\* the for loop: i runs from the last index down to 1
ShuffleFrom[shuffledOptions \in Seq(Int), i \in Nat, tape \in Tapes, n \in Nat] ==
    IF i > 0
    THEN LET j == (Random(tape, n) * (i + 1)) \div 100
         IN  ShuffleFrom[Swap(shuffledOptions, i, j), i - 1, tape, n + 1]
    ELSE shuffledOptions

\* generateMCQOptions without options.add(secretNumber)
generateMCQOptions_withoutSecret(secret, tape, n) ==
    LET filled == FillOptions[<<>>, tape, n]
    IN  ShuffleFrom[filled.options, Len(filled.options) - 1, tape,
                    filled.drawn]

\* the array generateMCQOptions returns when secretNumber is secret and the
\* random values come from the tape, from its n-th value on
generateMCQOptions(secret, tape, n) ==
    LET filled == FillOptions[SetAdd(<<>>, secret), tape, n]
    IN  ShuffleFrom[filled.options, Len(filled.options) - 1, tape,
                    filled.drawn]

(***************************************************************************)
(* createGuessCards                                                        *)
(***************************************************************************)
\* the cards createGuessCards(options) leaves in the container, one for each
\* option in the array's order (a function of the array's value)
createGuessCards[options \in Seq(Int)] ==
    [ k \in 1..Len(options) |->
        [ textContent     |-> toString(options[k]),
          value           |-> toString(options[k]),
          disabled        |-> FALSE,
          backgroundColor |-> "" ] ]

(***************************************************************************)
(* State                                                                   *)
(***************************************************************************)
VARIABLES
    loaded,                \* window.onload has fired
    secretNumber,          \* let secretNumber
    attempts,              \* let attempts
    gameOver,              \* let gameOver
    guessInput,            \* #guessInput: [value, disabled]
    submitButton,          \* #submitGuess: [disabled]
    cardsContainer,        \* #guessCards: the sequence of its cards
    resultMessage,         \* #resultMessage text
    attemptsCountDisplay,  \* #attemptsCount text
    gameStartDisplay,      \* #gameStart text
    gameEndDisplay,        \* #gameEnd text
    logTableBody,          \* #logTable tbody: the sequence of its rows
    resetButton,           \* #resetGame: [display]
    lastReturn,            \* how the last run of a guess listener ended
    pc,                    \* where a run of generateMCQOptions stands
    options,               \* its Set, in insertion order
    draws,                 \* the calls of generateRandomNumber it has made
    shuffledOptions        \* its array

\* a run of generateMCQOptions that is followed statement by statement
call == <<pc, options, draws, shuffledOptions>>

vars == <<loaded, secretNumber, attempts, gameOver, guessInput, submitButton,
          cardsContainer, resultMessage, attemptsCountDisplay,
          gameStartDisplay, gameEndDisplay, logTableBody, resetButton,
          lastReturn, pc, options, draws, shuffledOptions>>

\* everything but lastReturn
page == <<loaded, secretNumber, attempts, gameOver, guessInput, submitButton,
          cardsContainer, resultMessage, attemptsCountDisplay,
          gameStartDisplay, gameEndDisplay, logTableBody, resetButton>>

\* lastReturn: the listener returned without doing anything because the
\* game is over,
Ignored == "ignored"
\* it showed the alert and returned,
Alert == "alert"
\* or it ran to its end (also the value after initializeGame and after the
\* user, having closed the alert, edits the field)
End == "end"

\* the raw texts a user types into the guess field
RawTexts ==
    { <<"a", "b", "c">>,
      <<"9", "9", "9">>,
      <<"1", "2", "a", "b", "c">>,
      <<"7", ".", "9">>,
      <<"2", "5">>,
      <<"1", "0">>,
      <<"1", "7">>,
      <<"0">> }

ResultCorrect == "Correct"
ResultTooHigh == "Too High"
ResultTooLow == "Too Low"
Waiting == "Game Finished: Waiting..."
Finished == "Game Finished: <date>"

\* pc: no run of generateMCQOptions is being followed; the run is at
\* options.add(secretNumber), at the test of the while loop, at the for
\* loop, or it has returned
Idle == "idle"
AtAdd == "add"
AtWhile == "while"
AtFor == "for"
Returned == "return"

\* The page's markup is not part of the script: before the first
\* initializeGame the elements are taken empty and enabled.  The handlers
\* of the page run generateMCQOptions inside one step of theirs.
Init ==
    /\ pc = Idle
    /\ options = <<>>
    /\ draws = 0
    /\ shuffledOptions = <<>>
    /\ loaded = FALSE
    /\ secretNumber = undefined
    /\ attempts = 0
    /\ gameOver = FALSE
    /\ guessInput = [value |-> <<>>, disabled |-> FALSE]
    /\ submitButton = [disabled |-> FALSE]
    /\ cardsContainer = <<>>
    /\ resultMessage = <<>>
    /\ attemptsCountDisplay = <<>>
    /\ gameStartDisplay = ""
    /\ gameEndDisplay = ""
    /\ logTableBody = <<>>
    /\ resetButton = [display |-> ""]
    /\ lastReturn = End

(***************************************************************************)
(* Helper functions of the script                                          *)
(***************************************************************************)
\* The result texts are "Correct", "Too High" and "Too Low" followed by an
\* emoji in the script; the colour test reads the words only.
ResultColor(resultText) ==
    IF resultText = ResultCorrect THEN "green"
    ELSE IF resultText = ResultTooHigh THEN "#cc9900"
    ELSE "red"

\* addLogEntry with insertRow(-1): the new row goes to the bottom
addLogEntry_atBottom(rows, attemptNum, guessVal, resultText) ==
    rows \o << [ attempt |-> <<"#">> \o toString(attemptNum),
                 guess   |-> toString(guessVal),
                 result  |-> resultText,
                 color   |-> ResultColor(resultText) ] >>

\* the rows of the table after addLogEntry: insertRow(0) puts the new row
\* on top; its cells hold the texts the script writes
addLogEntry(rows, attemptNum, guessVal, resultText) ==
    << [ attempt |-> <<"#">> \o toString(attemptNum),
         guess   |-> toString(guessVal),
         result  |-> resultText,
         color   |-> ResultColor(resultText) ] >> \o rows

(***************************************************************************)
(* initializeGame                                                          *)
(***************************************************************************)
\* initializeGame without guessInput.disabled = false and
\* submitButton.disabled = false
initializeGame_keepsDisabled(tape) ==
    LET secret ==
            generateRandomNumber(MinNumber, MaxNumber, Random(tape, 0))
    IN  /\ secretNumber' = secret
        /\ attempts' = 0
        /\ gameOver' = FALSE
        /\ resultMessage' = <<"Enter your guess or select a card.">>
        /\ attemptsCountDisplay' = <<"Attempts: ", "0">>
        /\ gameStartDisplay' = "Game Started: <date>"
        /\ gameEndDisplay' = Waiting
        /\ logTableBody' = <<>>
        /\ resetButton' = [display |-> "none"]
        /\ guessInput' = [guessInput EXCEPT !.value = <<>>]
        /\ UNCHANGED submitButton
        /\ cardsContainer' =
               createGuessCards[generateMCQOptions(secret, tape, 1)]
        /\ lastReturn' = End

initializeGame(tape) ==
    LET secret ==
            generateRandomNumber(MinNumber, MaxNumber, Random(tape, 0))
    IN  /\ secretNumber' = secret
        /\ attempts' = 0
        /\ gameOver' = FALSE
        /\ resultMessage' = <<"Enter your guess or select a card.">>
        /\ attemptsCountDisplay' = <<"Attempts: ", "0">>
        /\ gameStartDisplay' = "Game Started: <date>"
        /\ gameEndDisplay' = Waiting
        /\ logTableBody' = <<>>
        /\ resetButton' = [display |-> "none"]
        /\ guessInput' = [value |-> <<>>, disabled |-> FALSE]
        /\ submitButton' = [disabled |-> FALSE]
        /\ cardsContainer' =
               createGuessCards[generateMCQOptions(secret, tape, 1)]
        /\ lastReturn' = End

(***************************************************************************)
(* checkGuess                                                              *)
(***************************************************************************)
\* the guess checkGuess works with: the card's number, or the field's text
\* parsed
GuessOf(guessValue) ==
    IF guessValue # null THEN guessValue ELSE parseInt(guessInput.value)

\* the validation of a guess that came from the field
InvalidGuess(guess) ==
    isNaN(guess) \/ LessThan(guess, MinNumber) \/ GreaterThan(guess, MaxNumber)

\* DisableCards without card.classList.add('disabled')
DisableCards_highlightOnly(cards, secret) ==
    [ k \in 1..Len(cards) |->
        [ cards[k] EXCEPT
            !.backgroundColor =
                IF StrictEquals(parseInt(cards[k].value), secret)
                THEN "green" ELSE "#6c757d" ] ]

\* the cards after the correct guess: all disabled, the secret one green
DisableCards(cards, secret) ==
    [ k \in 1..Len(cards) |->
        [ cards[k] EXCEPT
            !.disabled = TRUE,
            !.backgroundColor =
                IF StrictEquals(parseInt(cards[k].value), secret)
                THEN "green" ELSE "#6c757d" ] ]

\* ResultText with the comparison turned round
ResultText_swapped(guess, secret) ==
    IF StrictEquals(guess, secret) THEN ResultCorrect
    ELSE IF LessThan(guess, secret) THEN ResultTooHigh
    ELSE ResultTooLow

\* the result text of a guess that is evaluated
ResultText(guess, secret) ==
    IF StrictEquals(guess, secret) THEN ResultCorrect
    ELSE IF GreaterThan(guess, secret) THEN ResultTooHigh
    ELSE ResultTooLow

\* RejectGuess with attempts++ placed before the validation
RejectGuess_counted ==
    /\ lastReturn' = Alert
    /\ guessInput' = [guessInput EXCEPT !.value = <<>>]
    /\ attempts' = attempts + 1
    /\ attemptsCountDisplay' = <<"Attempts: ">> \o toString(attempts')
    /\ UNCHANGED <<loaded, secretNumber, gameOver, submitButton,
                   cardsContainer, resultMessage, gameStartDisplay,
                   gameEndDisplay, logTableBody, resetButton>>

\* RejectGuess that leaves the rejected text in the field
RejectGuess_keepsText ==
    /\ lastReturn' = Alert
    /\ UNCHANGED page

\* the validation failed: the alert, the field cleared, return
RejectGuess ==
    /\ lastReturn' = Alert
    /\ guessInput' = [guessInput EXCEPT !.value = <<>>]
    /\ UNCHANGED <<loaded, secretNumber, attempts, gameOver, submitButton,
                   cardsContainer, resultMessage, attemptsCountDisplay,
                   gameStartDisplay, gameEndDisplay, logTableBody,
                   resetButton>>

\* CorrectGuess without gameOver = true
CorrectGuess_notOver(resultText, value) ==
    /\ UNCHANGED gameOver
    /\ resultMessage' =
           <<resultText, " You guessed in ">>
               \o toString(attempts') \o <<" tries.">>
    /\ gameEndDisplay' = Finished
    /\ guessInput' = [value |-> value, disabled |-> TRUE]
    /\ submitButton' = [disabled |-> TRUE]
    /\ cardsContainer' = DisableCards(cardsContainer, secretNumber)
    /\ resetButton' = [display |-> "block"]

\* CorrectGuess without the write to #gameEnd
CorrectGuess_noEndTime(resultText, value) ==
    /\ gameOver' = TRUE
    /\ resultMessage' =
           <<resultText, " You guessed in ">>
               \o toString(attempts') \o <<" tries.">>
    /\ UNCHANGED gameEndDisplay
    /\ guessInput' = [value |-> value, disabled |-> TRUE]
    /\ submitButton' = [disabled |-> TRUE]
    /\ cardsContainer' = DisableCards(cardsContainer, secretNumber)
    /\ resetButton' = [display |-> "block"]

\* the branch of the correct guess; value is the field's text by then
CorrectGuess(resultText, value) ==
    /\ gameOver' = TRUE
    /\ resultMessage' =
           <<resultText, " You guessed in ">>
               \o toString(attempts') \o <<" tries.">>
    /\ gameEndDisplay' = Finished
    /\ guessInput' = [value |-> value, disabled |-> TRUE]
    /\ submitButton' = [disabled |-> TRUE]
    /\ cardsContainer' = DisableCards(cardsContainer, secretNumber)
    /\ resetButton' = [display |-> "block"]

\* the branch of the incorrect guess
IncorrectGuess(resultText, value) ==
    /\ resultMessage' = <<resultText>>
    /\ guessInput' = [guessInput EXCEPT !.value = value]
    /\ \E tape \in RandomTapes :
           cardsContainer' =
               createGuessCards[generateMCQOptions(secretNumber, tape, 0)]
    /\ UNCHANGED <<gameOver, gameEndDisplay, submitButton, resetButton>>

\* the guess passed the validation, or came from a card (the script writes
\* the log row last; it is the same row wherever the conjunct stands)
AcceptGuess(guess, fromField) ==
    LET resultText == ResultText(guess, secretNumber)
        value == IF fromField THEN <<>> ELSE guessInput.value
    IN  /\ lastReturn' = End
        /\ attempts' = attempts + 1
        /\ attemptsCountDisplay' = <<"Attempts: ">> \o toString(attempts')
        /\ logTableBody' =
               addLogEntry(logTableBody, attempts', guess, resultText)
        /\ UNCHANGED <<loaded, secretNumber, gameStartDisplay>>
        /\ IF StrictEquals(guess, secretNumber)
           THEN CorrectGuess(resultText, value)
           ELSE IncorrectGuess(resultText, value)

\* checkGuess from its second statement on
EvaluateGuess(guessValue) ==
    LET guess == GuessOf(guessValue)
        fromField == guessValue = null
    IN  IF fromField /\ InvalidGuess(guess)
        THEN RejectGuess
        ELSE AcceptGuess(guess, fromField)

\* checkGuess without its first statement
checkGuess_unguarded(guessValue) == EvaluateGuess(guessValue)

checkGuess(guessValue) ==
    IF gameOver
    THEN lastReturn' = Ignored /\ UNCHANGED page
    ELSE EvaluateGuess(guessValue)

(***************************************************************************)
(* Events                                                                  *)
(***************************************************************************)
\* window.onload
OnLoad ==
    /\ ~loaded
    /\ loaded' = TRUE
    /\ \E tape \in RandomTapes : initializeGame(tape)
    /\ UNCHANGED call

\* click on #resetGame.  Before window.onload a reset does what onload
\* itself does, so the model lets onload come first.
ResetClick ==
    /\ loaded
    /\ \E tape \in RandomTapes : initializeGame(tape)
    /\ UNCHANGED loaded
    /\ UNCHANGED call

\* the user edits the guess field (no listener runs); a disabled field
\* cannot be edited
TypeText ==
    /\ ~guessInput.disabled
    /\ \E rawText \in RawTexts :
           /\ rawText # guessInput.value
           /\ guessInput' = [guessInput EXCEPT !.value = rawText]
    /\ lastReturn' = End
    /\ UNCHANGED <<loaded, secretNumber, attempts, gameOver, submitButton,
                   cardsContainer, resultMessage, attemptsCountDisplay,
                   gameStartDisplay, gameEndDisplay, logTableBody,
                   resetButton>>
    /\ UNCHANGED call

\* the model stops exploring the guesses of a game at its bound
WithinBound ==
    gameOver \/ attempts < (IF loaded THEN MaxAttempts ELSE MaxEarlyGuesses)

\* click on #submitGuess
SubmitClick ==
    /\ WithinBound
    /\ checkGuess(null)
    /\ UNCHANGED call

\* keypress of Enter in #guessInput
EnterKeypress ==
    /\ WithinBound
    /\ checkGuess(null)
    /\ UNCHANGED call

\* click on the k-th card: the listener createGuessCards attached to it
CardClickOn(k) ==
    /\ WithinBound
    /\ IF ~gameOver
       THEN checkGuess(parseInt(cardsContainer[k].value))
       ELSE lastReturn' = Ignored /\ UNCHANGED page
    /\ UNCHANGED call

CardClick == \E k \in 1..Len(cardsContainer) : CardClickOn(k)

Next ==
    \/ OnLoad
    \/ ResetClick
    \/ TypeText
    \/ SubmitClick
    \/ EnterKeypress
    \/ CardClick

Spec == Init /\ [][Next]_vars

(***************************************************************************)
(* generateMCQOptions on its own: one run for a secretNumber of 1..50,     *)
(* followed statement by statement through the while loop, where every     *)
(* call of Math.random() is an input of its own.  The page stands still.   *)
(***************************************************************************)
\* The run is followed while it has made fewer calls of
\* generateRandomNumber than this,
MaxDraws == 6
\* and Math.random() returns one of the first DrawCount values of
\* RandomPool in the while loop.
DrawCount == 4

\* the least value of Math.random(), in hundredths, for which
\* Math.floor(Math.random() * (i + 1)) is j
IndexDraw(i, j) == ((100 * j) + i) \div (i + 1)

\* the tapes that make the for loop choose every j of 0..i at every i
ShuffleTapes ==
    { [values |-> <<IndexDraw(4, j4), IndexDraw(3, j3), IndexDraw(2, j2),
                    IndexDraw(1, j1)>>] :
          j4 \in 0..4, j3 \in 0..3, j2 \in 0..2, j1 \in 0..1 }

InitOptions ==
    /\ loaded = TRUE
    /\ secretNumber \in MinNumber..MaxNumber
    /\ attempts = 0
    /\ gameOver = FALSE
    /\ guessInput = [value |-> <<>>, disabled |-> FALSE]
    /\ submitButton = [disabled |-> FALSE]
    /\ cardsContainer = <<>>
    /\ resultMessage = <<"Enter your guess or select a card.">>
    /\ attemptsCountDisplay = <<"Attempts: ", "0">>
    /\ gameStartDisplay = "Game Started: <date>"
    /\ gameEndDisplay = Waiting
    /\ logTableBody = <<>>
    /\ resetButton = [display |-> "none"]
    /\ lastReturn = End
    /\ pc = AtAdd
    /\ options = <<>>
    /\ draws = 0
    /\ shuffledOptions = <<>>

\* const options = new Set(); options.add(secretNumber)
AddSecret ==
    /\ pc = AtAdd
    /\ options' = SetAdd(<<>>, secretNumber)
    /\ pc' = AtWhile
    /\ UNCHANGED <<draws, shuffledOptions, page, lastReturn>>

\* one turn of the while loop
DrawOption ==
    /\ pc = AtWhile
    /\ Len(options) < NUMBER_OF_MCQ_OPTIONS
    /\ draws < MaxDraws
    /\ \E d \in 1..DrawCount :
           LET randomNum ==
                   generateRandomNumber(MinNumber, MaxNumber, RandomPool[d])
           IN  options' = SetAdd(options, randomNum)
    /\ draws' = draws + 1
    /\ UNCHANGED <<pc, shuffledOptions, page, lastReturn>>

\* the while loop ends; const shuffledOptions = Array.from(options)
ArrayFrom ==
    /\ pc = AtWhile
    /\ ~(Len(options) < NUMBER_OF_MCQ_OPTIONS)
    /\ shuffledOptions' = options
    /\ pc' = AtFor
    /\ UNCHANGED <<options, draws, page, lastReturn>>

\* the for loop, and return shuffledOptions
Shuffle ==
    /\ pc = AtFor
    /\ \E tape \in ShuffleTapes :
           shuffledOptions' =
               ShuffleFrom[shuffledOptions, Len(shuffledOptions) - 1, tape, 0]
    /\ pc' = Returned
    /\ UNCHANGED <<options, draws, page, lastReturn>>

NextOptions ==
    \/ AddSecret
    \/ DrawOption
    \/ ArrayFrom
    \/ Shuffle

SpecOptions == InitOptions /\ [][NextOptions]_vars

(***************************************************************************)
(* Properties                                                              *)
(***************************************************************************)
TextSubmission == SubmitClick \/ EnterKeypress
GuessEvent == TextSubmission \/ CardClick
Initialization == OnLoad \/ ResetClick

\* the numbers on the displayed cards
OptionSet ==
    { parseInt(cardsContainer[k].value) : k \in 1..Len(cardsContainer) }

\* the fields of a log row, read back from its cells
AttemptNumber(row) == parseInt(Tail(row.attempt))
GuessedValue(row) == parseInt(row.guess)

\* The step properties below are written "consequence \/ ~ event", which is
\* "event => consequence".

\* C1: once the game is over, a guess event (a text submission, whatever the
\* field holds, or a card click) leaves attempts, gameOver, the finish
\* display, the log and the cards as they are; only a reset changes them.
C1_IgnoredWhenOver ==
    [][ \/ /\ attempts' = attempts
           /\ gameOver' = gameOver
           /\ gameEndDisplay' = gameEndDisplay
           /\ logTableBody' = logTableBody
           /\ cardsContainer' = cardsContainer
        \/ ~(gameOver /\ GuessEvent) ]_vars

\* a finished game whose last guess event was ignored while the field held a
\* text that would have passed the validation
C1_Witness ==
    /\ gameOver
    /\ lastReturn = Ignored
    /\ ~InvalidGuess(parseInt(guessInput.value))
    /\ attempts = 2

\* C2: while the game is not over a guess event adds 1 to attempts when the
\* guess is accepted and 0 when it is rejected; no event other than an
\* initialization lowers attempts or changes it by more than 1.
C2_AttemptsCount ==
    [][ /\ \/ attempts' = attempts + (IF lastReturn' = Alert THEN 0 ELSE 1)
           \/ ~(~gameOver /\ GuessEvent)
        /\ \/ attempts' \in {attempts, attempts + 1}
           \/ Initialization ]_vars

\* a running game with two accepted guesses whose last submission was
\* rejected
C2_Witness ==
    /\ ~gameOver
    /\ attempts = 2
    /\ lastReturn = Alert

\* C3: a rejected text submission shows the alert and clears the field and
\* changes nothing else; "abc" and "999" are rejected.
C3_RejectedChangesNothing ==
    [][ /\ \/ /\ guessInput' = [guessInput EXCEPT !.value = <<>>]
              /\ UNCHANGED <<loaded, secretNumber, attempts, gameOver,
                             submitButton, cardsContainer, resultMessage,
                             attemptsCountDisplay, gameStartDisplay,
                             gameEndDisplay, logTableBody, resetButton>>
           \/ ~(lastReturn' = Alert /\ GuessEvent)
        /\ \/ lastReturn' = Alert
           \/ ~( /\ ~gameOver
                 /\ guessInput.value \in
                        {<<"a", "b", "c">>, <<"9", "9", "9">>}
                 /\ TextSubmission ) ]_vars

\* "999" has just been rejected in a game that has not seen a guess yet
C3_Witness ==
    /\ loaded
    /\ lastReturn = Alert
    /\ attempts = 0
    /\ logTableBody = <<>>
    /\ guessInput.value = <<>>

\* a text that is an optional sign followed by decimal digits only
WellFormedInteger(text) ==
    LET digits == IF text # <<>> /\ Head(text) \in {"+", "-"}
                  THEN Tail(text) ELSE text
    IN  /\ digits # <<>>
        /\ \A i \in 1..Len(digits) : IsDigit(digits[i], 10)

\* the integer such a text denotes
IntegerValue(text) ==
    IF Head(text) = "-" THEN -DigitsValue[Tail(text), 10, 0]
    ELSE IF Head(text) = "+" THEN DigitsValue[Tail(text), 10, 0]
    ELSE DigitsValue[text, 10, 0]

\* C4: while a game is running a text submission is accepted exactly when
\* the text is a well-formed integer of the range 1..50; every other text
\* raises the alert and is not evaluated.
C4_AcceptedIffWellFormed ==
    [][ \/ (lastReturn' # Alert /\ attempts' = attempts + 1)
               <=> ( /\ WellFormedInteger(guessInput.value)
                     /\ IntegerValue(guessInput.value)
                            \in MinNumber..MaxNumber )
        \/ ~(loaded /\ ~gameOver /\ TextSubmission) ]_vars

\* the target
RangeOfTarget == MinNumber..MaxNumber

\* the step is a guess event of a running game that evaluates the guess g
EvaluatesGuess(g) ==
    /\ ~gameOver
    /\ \/ /\ parseInt(guessInput.value) = g
          /\ lastReturn' = End
          /\ TextSubmission
       \/ \E k \in 1..Len(cardsContainer) :
              /\ parseInt(cardsContainer[k].value) = g
              /\ CardClickOn(k)

\* C5: initializeGame draws the target from 1..50; no guess event changes
\* it; a guess that is evaluated and equals the target is logged as Correct
\* and ends the game in that step, whatever was guessed before.
C5_TargetFixed ==
    [][ /\ \/ secretNumber' \in RangeOfTarget
           \/ ~Initialization
        /\ \/ secretNumber' = secretNumber
           \/ ~GuessEvent
        /\ \/ /\ gameOver'
              /\ logTableBody' # <<>>
              /\ Head(logTableBody').result = ResultCorrect
           \/ ~(loaded /\ EvaluatesGuess(secretNumber)) ]_vars

\* a game won by its third guess, after two wrong ones
C5_Witness ==
    /\ gameOver
    /\ attempts = 3
    /\ secretNumber \in RangeOfTarget
    /\ GuessedValue(logTableBody[1]) = secretNumber
    /\ GuessedValue(logTableBody[2]) # secretNumber
    /\ GuessedValue(logTableBody[3]) # secretNumber

\* C6: once initializeGame has run, the container shows exactly
\* NUMBER_OF_MCQ_OPTIONS cards with pairwise different numbers, all of them
\* in 1..50 and one of them the target.
C6_OptionSet ==
    loaded =>
        /\ Len(cardsContainer) = NUMBER_OF_MCQ_OPTIONS
        /\ Cardinality(OptionSet) = NUMBER_OF_MCQ_OPTIONS
        /\ secretNumber \in OptionSet
        /\ OptionSet \subseteq MinNumber..MaxNumber

\* the cards regenerated by the second wrong guess of a running game
C6_Witness ==
    /\ loaded
    /\ ~gameOver
    /\ attempts = 2
    /\ lastReturn = End
    /\ logTableBody[1].result # ResultCorrect

\* C7: the log has one row per accepted guess of the game, the newest on
\* top, numbered N, N-1, ..., 1 from the top; an accepted guess puts one row
\* numbered with the new value of attempts on top of the rows there were;
\* a rejected or ignored guess leaves the log as it is.
C7_LogOrder ==
    /\ [] ( /\ Len(logTableBody) = attempts
            /\ \A i \in 1..Len(logTableBody) :
                   AttemptNumber(logTableBody[i]) = Len(logTableBody) - i + 1 )
    /\ [][ IF attempts' = attempts + 1
           THEN /\ logTableBody' # <<>>
                /\ Tail(logTableBody') = logTableBody
                /\ AttemptNumber(Head(logTableBody')) = attempts'
           ELSE \/ logTableBody' = logTableBody
                \/ Initialization ]_vars

\* three accepted guesses and then an ignored one
C7_Witness ==
    /\ Len(logTableBody) = 3
    /\ gameOver
    /\ lastReturn = Ignored

\* the numbers generateRandomNumber(1, 50) returns on the model's random
\* source
RandomNumbers ==
    { generateRandomNumber(MinNumber, MaxNumber, RandomPool[i]) :
          i \in 1..RandomCount }

\* C8: initializeGame, from whatever state, sets attempts to 0, empties the
\* log, clears gameOver, puts the finish display back to the waiting text,
\* draws a target in 1..50 and shows cards that contain it; whatever the
\* target was, the new one can be any number the random source yields, and
\* a random source of hundredths yields every number of 1..50 and no other.
C8_Reset ==
    /\ [][ \/ /\ attempts' = 0
              /\ logTableBody' = <<>>
              /\ gameOver' = FALSE
              /\ gameEndDisplay' = Waiting
              /\ secretNumber' \in MinNumber..MaxNumber
              /\ secretNumber' \in OptionSet'
           \/ ~Initialization ]_vars
    /\ [] ( loaded =>
              \A v \in RandomNumbers :
                  ENABLED (secretNumber' = v /\ ResetClick) )
    /\ [] ( { generateRandomNumber(MinNumber, MaxNumber, r) : r \in 0..99 }
                = MinNumber..MaxNumber )

\* a game with two guesses logged, and a finished one, from which a reset
\* starts a fresh game with another target
C8_Witness ==
    /\ attempts = 2
    /\ logTableBody # <<>>
    /\ ENABLED ( /\ ResetClick
                 /\ attempts' = 0
                 /\ logTableBody' = <<>>
                 /\ secretNumber' # secretNumber )

\* the outcome of guess g against target t
Outcome(g, t) ==
    IF g = t THEN ResultCorrect
    ELSE IF g > t THEN ResultTooHigh
    ELSE ResultTooLow

\* the step logged guess g with its outcome and ended the game exactly if g
\* is the target
Classified(g) ==
    /\ logTableBody' # <<>>
    /\ GuessedValue(Head(logTableBody')) = g
    /\ Head(logTableBody').result = Outcome(g, secretNumber)
    /\ gameOver' = (g = secretNumber)

\* the guesses and the outcomes of the log, oldest first
Guesses ==
    [ i \in 1..Len(logTableBody) |->
        GuessedValue(logTableBody[Len(logTableBody) + 1 - i]) ]
Outcomes ==
    [ i \in 1..Len(logTableBody) |->
        logTableBody[Len(logTableBody) + 1 - i].result ]

\* C9: a guess g that is evaluated against a target t of 1..50 is logged
\* Correct if g = t, Too High if g > t and Too Low if g < t, and the game is
\* over after it exactly if g = t; with target 17 the guesses 25, 10, 17
\* give Too High, Too Low, Correct, attempts 3 and a finished game.
C9_Outcome ==
    /\ [][ /\ \/ Classified(parseInt(guessInput.value))
              \/ ~( /\ loaded
                    /\ ~gameOver
                    /\ lastReturn' = End
                    /\ TextSubmission )
           /\ \A k \in 1..Len(cardsContainer) :
                  \/ Classified(parseInt(cardsContainer[k].value))
                  \/ ~(loaded /\ ~gameOver /\ CardClickOn(k)) ]_vars
    /\ [] ( (secretNumber = 17 /\ Guesses = <<25, 10, 17>>) =>
              /\ Outcomes = <<ResultTooHigh, ResultTooLow, ResultCorrect>>
              /\ attempts = 3
              /\ gameOver
              /\ [i \in 1..3 |-> AttemptNumber(logTableBody[i])]
                     = <<3, 2, 1>> )

\* target 17 and the guesses 25, 10 and 17
C9_Witness ==
    /\ secretNumber = 17
    /\ Guesses = <<25, 10, 17>>

\* C10: once initializeGame has run, the finish display shows a date exactly
\* when gameOver is true, and the step that writes the date is the step
\* that sets gameOver.
C10_FinishedIffOver ==
    /\ [] ( loaded => (gameEndDisplay = Finished <=> gameOver) )
    /\ [][ (gameEndDisplay # Finished /\ gameEndDisplay' = Finished)
               <=> (~gameOver /\ gameOver') ]_vars

\* a finished game, and the date on display
C10_Witness ==
    /\ gameOver
    /\ gameEndDisplay = Finished
    /\ attempts = 3

\* the cards highlighted as the correct one
GreenCards == { k \in 1..Len(cardsContainer) :
                  cardsContainer[k].backgroundColor = "green" }

\* C11: the step of the correct guess, from the field or from a card, keeps
\* the cards that were shown (same numbers, same order), marks every one of
\* them disabled and colours exactly one green: the one with the target.
C11_CorrectGuessCards ==
    [][ \/ /\ Len(cardsContainer') = Len(cardsContainer)
           /\ \A k \in 1..Len(cardsContainer) :
                  /\ cardsContainer'[k].value = cardsContainer[k].value
                  /\ cardsContainer'[k].textContent
                         = cardsContainer[k].textContent
                  /\ cardsContainer'[k].disabled
           /\ Cardinality(GreenCards') = 1
           /\ \A k \in GreenCards' :
                  parseInt(cardsContainer'[k].value) = secretNumber
        \/ ~(~gameOver /\ gameOver' /\ GuessEvent) ]_vars

\* a game won at the first guess by a click on a card, while the field held
\* a text, and the cards it leaves
C11_Witness ==
    /\ gameOver
    /\ attempts = 1
    /\ guessInput.value # <<>>
    /\ Cardinality(GreenCards) = 1
    /\ \A k \in 1..Len(cardsContainer) : cardsContainer[k].disabled

\* C12: a guess event that accepts a guess (it adds 1 to attempts) finds a
\* target that is an integer of 1..50, also between the attachment of the
\* listeners and window.onload.
C12_TargetDefined ==
    [][ \/ secretNumber \in MinNumber..MaxNumber
        \/ ~(attempts' = attempts + 1 /\ GuessEvent) ]_vars

\* C13: a run of generateMCQOptions, whatever the target of 1..50, leaves
\* its while loop with NUMBER_OF_MCQ_OPTIONS members in the set, and never
\* makes more than NUMBER_OF_MCQ_OPTIONS calls of generateRandomNumber.
C13_DrawsBounded ==
    /\ pc \in {AtFor, Returned} => Len(options) = NUMBER_OF_MCQ_OPTIONS
    /\ draws <= NUMBER_OF_MCQ_OPTIONS

\* the orderings of the members of the array a
Orderings(a) ==
    { [k \in 1..Len(a) |-> a[p[k]]] :
          p \in { f \in [1..Len(a) -> 1..Len(a)] :
                      \A x, y \in 1..Len(a) : f[x] = f[y] => x = y } }

\* the arrays the for loop can make of the array a
ShuffleResults(a) ==
    { ShuffleFrom[a, Len(a) - 1, tape, 0] : tape \in ShuffleTapes }

\* the members of the array a
Members(a) == { a[k] : k \in 1..Len(a) }

\* C14: the array generateMCQOptions returns has the members of its set,
\* all of them and each once; and when the for loop starts, the arrays the
\* loop can make of the array are its orderings, every one of them.
C14_Shuffle ==
    /\ pc = Returned =>
           /\ Len(shuffledOptions) = NUMBER_OF_MCQ_OPTIONS
           /\ Members(shuffledOptions) = Members(options)
           /\ Cardinality(Members(shuffledOptions)) = NUMBER_OF_MCQ_OPTIONS
    /\ pc = AtFor =>
           ShuffleResults(shuffledOptions) = Orderings(shuffledOptions)

\* a run that returned its set in reverse order, after a duplicate draw
C14_Witness ==
    /\ pc = Returned
    /\ draws = NUMBER_OF_MCQ_OPTIONS
    /\ shuffledOptions =
           [k \in 1..Len(options) |-> options[Len(options) + 1 - k]]

\* the reset button is shown
ResetVisible == resetButton.display # "none"

\* C15: once initializeGame has run, the guess field and the submit button
\* are enabled exactly while the game is not over and the reset button is
\* shown exactly when it is over; initializeGame enables the two and hides
\* the reset button.
C15_Controls ==
    /\ [] ( loaded =>
               /\ guessInput.disabled = gameOver
               /\ submitButton.disabled = gameOver
               /\ ResetVisible = gameOver )
    /\ [][ \/ /\ ~guessInput'.disabled
              /\ ~submitButton'.disabled
              /\ ~ResetVisible'
           \/ ~Initialization ]_vars

\* a game that was won, and then reset
C15_Witness ==
    /\ gameOver
    /\ guessInput.disabled
    /\ submitButton.disabled
    /\ ResetVisible
    /\ ENABLED ( /\ ResetClick
                 /\ ~guessInput'.disabled
                 /\ ~submitButton'.disabled
                 /\ ~ResetVisible' )

\* the rows of the log whose outcome is Correct, counted from the top
CorrectRows ==
    { i \in 1..Len(logTableBody) : logTableBody[i].result = ResultCorrect }

\* C16: the log never has two Correct rows; it has one exactly when
\* gameOver is true, and that row is the top row, numbered with the value
\* of attempts.
C16_OneCorrectRow ==
    /\ Cardinality(CorrectRows) <= 1
    /\ (CorrectRows # {}) = gameOver
    /\ gameOver =>
           /\ CorrectRows = {1}
           /\ AttemptNumber(logTableBody[1]) = attempts

\* a game won at its third guess, on which a further guess was tried
C16_Witness ==
    /\ gameOver
    /\ attempts = 3
    /\ CorrectRows = {1}
    /\ lastReturn = Ignored

\* the row's outcome is the one its guess has against the target t: none
\* when t is not a number
Consistent(row, t) ==
    LET g == GuessedValue(row)
        defined == t \in MinNumber..MaxNumber
    IN  /\ (row.result = ResultCorrect) = (defined /\ g = t)
        /\ (row.result = ResultTooHigh) = (defined /\ g > t)
        /\ (row.result = ResultTooLow) = (defined /\ g < t)

\* C17: in every state every row of the log has the outcome its guess has
\* against the current target, and initializeGame leaves no row of the
\* game before.
C17_LogConsistent ==
    /\ [] ( \A i \in 1..Len(logTableBody) :
                Consistent(logTableBody[i], secretNumber) )
    /\ [][ logTableBody' = <<>> \/ ~Initialization ]_vars

====
